---- MODULE Spec2Model ----
(***************************************************************************)
(* Model of pcdsdevices/lodcm.py: the LODCM device (large offset dual      *)
(* crystal monochromator).  The state is the readback of every discrete    *)
(* state positioner of the device, the four reflection registers, the      *)
(* status objects of a remove_dia call, and the outcome of the last query. *)
(***************************************************************************)
EXTENDS Naturals, Sequences, FiniteSets, TLC

VARIABLES
    pos,        \* pos[d]: the `position` each state positioner reports
    regs,       \* regs[r]: the value of each reflection register
    ret,        \* outcome of the query that has just run
    sub,        \* sub[d]: status returned by dia.remove() for diagnostic d
    motion,     \* motion[d]: the hardware motion commanded on diagnostic d
    stuck,      \* the diagnostics whose motion never completes
    joined,     \* the status remove_dia builds with `&`
    cbcalls,    \* how many times moved_cb has been invoked
    call,       \* the remove_dia call: its arguments and where it stands
    clock,      \* time elapsed since the remove commands were issued
    prefix,     \* the prefix the device was constructed with
    lead        \* the remove call on h1n: its arguments, status and motion

vars == <<pos, regs, ret, sub, motion, stuck, joined, cbcalls, call, clock,
          prefix, lead>>

\* What no query and no readback changes: the prefix and the remove commands.
diaVars == <<sub, motion, stuck, joined, cbcalls, call, clock, prefix, lead>>

-----------------------------------------------------------------------------
(* Values *)

\* Python's None.
None == "None"

\* What `position` reports when the readback matches no state of the list.
Unknown == "Unknown"

\* LODCM.__init__ defaults for main_line and mono_line.
main_line == "MAIN"

mono_line == "MONO"

-----------------------------------------------------------------------------
(* The state positioner classes *)

Diagnostics == {"yag", "dectris", "diode", "foil"}

Tower1 == {"h1n", "y1_state", "chi1_state"}

Tower2 == {"h2n_state", "y2_state", "chi2_state"}

Components == {"h1n"} \cup Diagnostics \cup Tower1 \cup Tower2

\* A prefix is a string, held as the sequence of its characters.
XPP == <<"X", "P", "P">>

XCS == <<"X", "C", "S">>

XppLodcm == <<"X", "P", "P", ":", "L", "O", "D", "C", "M">>

XcsLodcm == <<"X", "C", "S", ":", "L", "O", "D", "C", "M">>

TstLodcm == <<"T", "S", "T", ":", "L", "O", "D", "C", "M">>

\* The prefixes a LODCM is constructed with: the two hutches and a test one.
Prefixes == {XppLodcm, XcsLodcm, TstLodcm}

\* needle in hay
Contains(needle, hay) ==
    \E i \in 0..(Len(hay) - Len(needle)) :
        SubSeq(hay, i + 1, i + Len(needle)) = needle

\* The prefix of the foil component: Cpt(Foil, ":FOIL").
FoilPrefix(pfx) == pfx \o <<":", "F", "O", "I", "L">>

\* Foil.__init__: the in_states chosen from the prefix.
Foil_in_states(pfx) ==
    IF Contains(XPP, pfx) THEN {"Mo", "Zr", "Zn", "Cu", "Ni", "Fe", "Ti"}
    ELSE IF Contains(XCS, pfx) THEN {"Mo", "Zr", "Ge", "Cu", "Ni", "Fe", "Ti"}
    ELSE {}

\* The in_states of the foil of this device.
FoilInStates == Foil_in_states(FoilPrefix(prefix))

\* states_list of the class of component d.
states_list(d) ==
    CASE d = "h1n"     -> {"OUT", "C", "Si"}
      [] d = "yag"     -> {"OUT", "YAG", "SLIT1", "SLIT2", "SLIT3"}
      [] d = "dectris" -> {"OUT", "DECTRIS", "SLIT1", "SLIT2", "SLIT3", "OUTLOW"}
      [] d = "diode"   -> {"OUT", "IN"}
      [] d = "foil"    -> {"OUT"} \cup FoilInStates
      [] OTHER         -> {"C", "Si"}

\* in_states of the class of component d.
in_states(d) ==
    CASE d = "h1n"     -> {"C", "Si"}
      [] d = "yag"     -> {"YAG", "SLIT1", "SLIT2", "SLIT3"}
      [] d = "dectris" -> {"DECTRIS", "SLIT1", "SLIT2", "SLIT3"}
      [] d = "diode"   -> {"IN"}
      [] d = "foil"    -> FoilInStates
      [] OTHER         -> {"C", "Si"}

\* out_states of the class of component d (['OUT'] unless the class sets it).
out_states(d) ==
    CASE d = "h1n"     -> {"OUT"}
      [] d = "yag"     -> {"OUT"}
      [] d = "dectris" -> {"OUT", "OUTLOW"}
      [] d = "diode"   -> {"OUT"}
      [] d = "foil"    -> {"OUT"}
      [] OTHER         -> {}

\* Every value `position` can report for component d.
Positions(d) == states_list(d) \cup {Unknown}

\* InOutPositioner.inserted: the current state is one of the in_states.
inserted(p, d) == p[d] \in in_states(d)

\* InOutPositioner.removed: the current state is one of the out_states.
removed(p, d) == p[d] \in out_states(d)

-----------------------------------------------------------------------------
(* Beam destination *)

\* A diagnostics check that also looks at the diode.
dia_clear_with_diode(p) ==
    removed(p, "yag") /\ removed(p, "dectris") /\ removed(p, "diode")
        /\ removed(p, "foil")

\* LODCM._dia_clear
dia_clear(p) ==
    LET yag_clear     == removed(p, "yag")
        dectris_clear == removed(p, "dectris")
        foil_clear    == removed(p, "foil")
    IN  yag_clear /\ dectris_clear /\ foil_clear

\* list.remove(x): drops the first occurrence of x.
RECURSIVE list_remove(_, _)
list_remove(s, x) ==
    IF s = <<>> THEN <<>>
    ELSE IF Head(s) = x THEN Tail(s)
    ELSE <<Head(s)>> \o list_remove(Tail(s), x)

InList(x, s) == \E i \in 1..Len(s) : s[i] = x

\* A destination that forgets to strip the mono line.
destination_no_strip(p) ==
    IF p["h1n"] = "OUT" THEN <<main_line>>
    ELSE IF p["h1n"] = "Si" THEN <<mono_line>>
    ELSE IF p["h1n"] = "C" THEN <<main_line, mono_line>>
    ELSE <<>>

\* LODCM.destination
destination(p) ==
    LET dest == IF p["h1n"] = "OUT" THEN <<main_line>>
                ELSE IF p["h1n"] = "Si" THEN <<mono_line>>
                ELSE IF p["h1n"] = "C" THEN <<main_line, mono_line>>
                ELSE <<>>
    IN  IF ~dia_clear(p) /\ InList(mono_line, dest)
        THEN list_remove(dest, mono_line)
        ELSE dest

-----------------------------------------------------------------------------
(* Inserted and removed *)

\* LODCM.inserted
lodcm_inserted(p) == inserted(p, "h1n")

\* A removed that is taken to be the opposite of inserted.
lodcm_removed_not_inserted(p) == ~inserted(p, "h1n")

\* LODCM.removed
lodcm_removed(p) == removed(p, "h1n")

-----------------------------------------------------------------------------
(* Outcomes of a call: a returned value or a raised ValueError *)

Return(v) == [kind |-> "return", val |-> v]

Raise(msg) == [kind |-> "raise", val |-> msg]

\* The messages of the ValueErrors the module raises.
ErrMaterial == "Unable to determine crystal's material."

ErrReflection == "Unable to determine the crystal reflection"

ErrArrangementMaterial == "Invalid Crystal Arrangement."

ErrArrangementReflection == "Invalid Crystal Arrangement"

\* A value that may be None and is compared with tuples or strings:
\* Nothing is None, Some(v) is v.
Nothing == <<>>

Some(v) == <<v>>

-----------------------------------------------------------------------------
(* Tower state inference *)

\* Tower 1 diamond check that does not accept h1n 'OUT'.
is_tower_1_c_strict(p) ==
    p["h1n"] = "C" /\ p["y1_state"] = "C" /\ p["chi1_state"] = "C"

\* LODCM._is_tower_1_c
is_tower_1_c(p) ==
    /\ (p["h1n"] = "C" \/ p["h1n"] = "OUT")
    /\ p["y1_state"] = "C"
    /\ p["chi1_state"] = "C"

\* Tower 1 silicon check that looks at h1n only.
is_tower_1_si_h1n_only(p) ==
    p["h1n"] = "Si" \/ p["h1n"] = "OUT"

\* LODCM._is_tower_1_si
is_tower_1_si(p) ==
    /\ (p["h1n"] = "Si" \/ p["h1n"] = "OUT")
    /\ p["y1_state"] = "Si"
    /\ p["chi1_state"] = "Si"

\* LODCM._is_tower_2_c
is_tower_2_c(p) ==
    /\ p["h2n_state"] = "C"
    /\ p["y2_state"] = "C"
    /\ p["chi2_state"] = "C"

\* LODCM._is_tower_2_si
is_tower_2_si(p) ==
    /\ p["h2n_state"] = "Si"
    /\ p["y2_state"] = "Si"
    /\ p["chi2_state"] = "Si"

\* LODCM._get_material
get_material_of_tower(p, tower_num, check) ==
    IF tower_num = 1 /\ is_tower_1_c(p) THEN Return("C")
    ELSE IF tower_num = 1 /\ is_tower_1_si(p) THEN Return("Si")
    ELSE IF tower_num = 2 /\ is_tower_2_c(p) THEN Return("C")
    ELSE IF tower_num = 2 /\ is_tower_2_si(p) THEN Return("Si")
    ELSE IF check THEN Raise(ErrMaterial)
    ELSE Return(None)

\* LODCM.get_first_tower_material
get_first_tower_material(p, check) == get_material_of_tower(p, 1, check)

\* LODCM.get_second_tower_material
get_second_tower_material(p, check) == get_material_of_tower(p, 2, check)

\* A get_material that trusts tower 1 and never compares the towers.
get_material_no_compare(p, check) ==
    LET m_1 == get_first_tower_material(p, check)
        m_2 == get_second_tower_material(p, check)
    IN  IF m_1.kind = "raise" THEN m_1
        ELSE IF m_2.kind = "raise" THEN m_2
        ELSE m_1

\* A get_material that lets an undetermined tower follow the other one.
get_material_lenient(p, check) ==
    LET m_1 == get_first_tower_material(p, check)
        m_2 == get_second_tower_material(p, check)
    IN  IF m_1.kind = "raise" THEN m_1
        ELSE IF m_2.kind = "raise" THEN m_2
        ELSE IF m_1.val = None THEN m_2
        ELSE IF m_2.val = None THEN m_1
        ELSE IF m_1.val # m_2.val THEN Raise(ErrArrangementMaterial)
        ELSE m_1

\* LODCM.get_material
get_material(p, check) ==
    LET m_1 == get_first_tower_material(p, check)
        m_2 == get_second_tower_material(p, check)
    IN  IF m_1.kind = "raise" THEN m_1
        ELSE IF m_2.kind = "raise" THEN m_2
        ELSE IF m_1.val # m_2.val THEN Raise(ErrArrangementMaterial)
        ELSE m_1

-----------------------------------------------------------------------------
(* Reflection resolution *)

Digit == <<"0", "1", "2", "3", "4", "5", "6", "7", "8", "9">>

\* str(r) of a non-negative integer.
RECURSIVE str(_)
str(n) == IF n < 10 THEN Digit[n + 1] ELSE str(n \div 10) \o Digit[(n % 10) + 1]

\* The loop of _get_reflection that joins str(r) of every r in refs;
\* ref stays None when refs has no component.
RECURSIVE join_refs(_, _)
join_refs(ref, refs) ==
    IF refs = <<>> THEN ref
    ELSE join_refs(IF ref = Nothing THEN Some(str(Head(refs)))
                   ELSE Some(ref[1] \o str(Head(refs))),
                   Tail(refs))

\* A register lookup that reads the diamond register of tower 2 for silicon too.
read_register_t2_c_only(p, g, tower_num) ==
    IF tower_num = 1 /\ is_tower_1_c(p) THEN Some(g["t1_c_ref"])
    ELSE IF tower_num = 1 /\ is_tower_1_si(p) THEN Some(g["t1_si_ref"])
    ELSE IF tower_num = 2 /\ is_tower_2_c(p) THEN Some(g["t2_c_ref"])
    ELSE IF tower_num = 2 /\ is_tower_2_si(p) THEN Some(g["t2_c_ref"])
    ELSE Nothing

\* The register lookup of LODCM._get_reflection: refs, or None.
read_register(p, g, tower_num) ==
    IF tower_num = 1 /\ is_tower_1_c(p) THEN Some(g["t1_c_ref"])
    ELSE IF tower_num = 1 /\ is_tower_1_si(p) THEN Some(g["t1_si_ref"])
    ELSE IF tower_num = 2 /\ is_tower_2_c(p) THEN Some(g["t2_c_ref"])
    ELSE IF tower_num = 2 /\ is_tower_2_si(p) THEN Some(g["t2_si_ref"])
    ELSE Nothing

\* A _get_reflection that joins the components last to first.
get_reflection_of_tower_last_first(p, g, tower_num, as_tuple, check) ==
    LET refs == read_register(p, g, tower_num)
        rev(t) == [i \in 1..Len(t) |-> t[Len(t) + 1 - i]]
    IN  IF check /\ refs = Nothing THEN Raise(ErrReflection)
        ELSE IF as_tuple THEN Return(refs)
        ELSE IF refs # Nothing THEN Return(join_refs(Nothing, rev(refs[1])))
        ELSE Return(Nothing)

\* LODCM._get_reflection
get_reflection_of_tower(p, g, tower_num, as_tuple, check) ==
    LET refs == read_register(p, g, tower_num)
    IN  IF check /\ refs = Nothing THEN Raise(ErrReflection)
        ELSE IF as_tuple THEN Return(refs)
        ELSE IF refs # Nothing THEN Return(join_refs(Nothing, refs[1]))
        ELSE Return(Nothing)

\* LODCM.get_first_tower_reflection
get_first_tower_reflection(p, g, as_tuple, check) ==
    get_reflection_of_tower(p, g, 1, as_tuple, check)

\* LODCM.get_second_tower_reflection
get_second_tower_reflection(p, g, as_tuple, check) ==
    get_reflection_of_tower(p, g, 2, as_tuple, check)

\* A get_reflection that returns tower 1's reflection without comparing.
get_reflection_no_compare(p, g, as_tuple, check) ==
    LET ref_1 == get_first_tower_reflection(p, g, as_tuple, check)
        ref_2 == get_second_tower_reflection(p, g, as_tuple, check)
    IN  IF ref_1.kind = "raise" THEN ref_1
        ELSE IF ref_2.kind = "raise" THEN ref_2
        ELSE ref_1

\* LODCM.get_reflection
get_reflection(p, g, as_tuple, check) ==
    LET ref_1 == get_first_tower_reflection(p, g, as_tuple, check)
        ref_2 == get_second_tower_reflection(p, g, as_tuple, check)
    IN  IF ref_1.kind = "raise" THEN ref_1
        ELSE IF ref_2.kind = "raise" THEN ref_2
        ELSE IF ref_1.val # ref_2.val THEN Raise(ErrArrangementReflection)
        ELSE ref_1

-----------------------------------------------------------------------------
(* Photon energy and the status report *)

ErrMaterialId == "Invalid material Id"

\* LODCM.get_first_tower_energy.  material is a label or None, reflection is
\* Some(tuple) or Nothing.  The number returned is represented by what it is
\* computed from: the angle axis read, the material and the reflection.
get_first_tower_energy(p, g, material, reflection) ==
    LET r == IF reflection = Nothing
             THEN get_first_tower_reflection(p, g, TRUE, TRUE)
             ELSE Return(reflection)
        m == IF material = None
             THEN get_first_tower_material(p, TRUE)
             ELSE Return(material)
    IN  IF r.kind = "raise" THEN r
        ELSE IF m.kind = "raise" THEN m
        ELSE IF m.val = "Si"
             THEN Return([axis |-> "th1_si", material |-> "Si", reflection |-> r.val])
        ELSE IF m.val = "C"
             THEN Return([axis |-> "th1_c", material |-> "C", reflection |-> r.val])
        ELSE Raise(ErrMaterialId)

\* A get_energy that resolves material and reflection from both towers, as
\* calc_energy does.
get_energy_both_towers(p, g, material, reflection) ==
    LET r == IF reflection = Nothing
             THEN get_reflection(p, g, TRUE, TRUE)
             ELSE Return(reflection)
        m == IF material = None
             THEN get_material(p, TRUE)
             ELSE Return(material)
    IN  IF r.kind = "raise" THEN r
        ELSE IF m.kind = "raise" THEN m
        ELSE IF m.val = "Si"
             THEN Return([axis |-> "th1_si", material |-> "Si", reflection |-> r.val])
        ELSE IF m.val = "C"
             THEN Return([axis |-> "th1_c", material |-> "C", reflection |-> r.val])
        ELSE Raise(ErrMaterialId)

\* LODCM.get_energy
get_energy(p, g, material, reflection) ==
    get_first_tower_energy(p, g, material, reflection)

\* The pseudo axes LODCM declares (PseudoSingleInterface components): the
\* fields of PseudoPosition.
PseudoAxes ==
    {"energy", "th1_si", "th1_c", "th2_si", "th2_c",
     "z1_si", "z1_c", "z2_si", "z2_c"}

\* The real axes LODCM declares (its positioner components that are not
\* pseudo axes): the fields of RealPosition.
RealAxes ==
    {"h1n", "yag", "dectris", "diode", "foil", "y1_state", "chi1_state",
     "h2n_state", "y2_state", "chi2_state", "z1", "x1", "y1", "th1", "ch1",
     "h1n_m", "h1p", "z2", "x2", "y2", "th2", "ch2", "h2n", "diode2",
     "dh", "dv", "dr", "df", "dd", "yag_zoom"}

ErrMissingArguments == "missing required positional arguments"

ErrMaterialID == "Invalid material ID"

\* self.PseudoPosition(**given): a namedtuple over PseudoAxes, whose
\* constructor raises TypeError unless every field is given.
PseudoPosition(given) ==
    IF DOMAIN given = PseudoAxes THEN Return(given) ELSE Raise(ErrMissingArguments)

\* self.RealPosition(**given): a namedtuple over RealAxes.
RealPosition(given) ==
    IF DOMAIN given = RealAxes THEN Return(given) ELSE Raise(ErrMissingArguments)

\* LODCM.calc_energy.  The angle and offset of m_calcs.get_geometry are
\* represented by what they are computed from.
calc_energy(p, g, energy, material, reflection) ==
    LET r == IF reflection = Nothing
             THEN get_reflection(p, g, TRUE, TRUE)
             ELSE Return(reflection)
        m == IF material = None
             THEN get_material(p, TRUE)
             ELSE Return(material)
    IN  IF r.kind = "raise" THEN r
        ELSE IF m.kind = "raise" THEN m
        ELSE Return([th |-> [q |-> "th", energy |-> energy,
                             material |-> m.val, reflection |-> r.val],
                     z |-> [q |-> "z", energy |-> energy,
                            material |-> m.val, reflection |-> r.val],
                     material |-> m.val])

\* -z
negated(z) == [z EXCEPT !.q = "-z"]

\* LODCM.forward: pseudo_pos is not read.  A field set to None is Nothing.
forward(p, g, pseudo_pos) ==
    LET energy == get_energy(p, g, None, Nothing)
    IN  IF energy.kind = "raise" THEN energy
        ELSE RealPosition([a \in RealAxes |->
                            IF a = "th1" THEN Some(energy.val) ELSE Nothing])

\* LODCM.inverse: real_pos is not read.
inverse(p, g, real_pos) ==
    LET ce == calc_energy(p, g, 8, None, Nothing)
    IN  IF ce.kind = "raise" THEN ce
        ELSE IF ce.val.material = "Si"
             THEN PseudoPosition(
                    [a \in {"th1_si", "th2_si", "z1_si", "z2_si"} |->
                        IF a \in {"th1_si", "th2_si"} THEN Some(ce.val.th)
                        ELSE IF a = "z1_si" THEN Some(negated(ce.val.z))
                        ELSE Some(ce.val.z)])
        ELSE IF ce.val.material = "C"
             THEN PseudoPosition(
                    [a \in PseudoAxes |->
                        IF a \in {"th1_c", "th2_c"} THEN Some(ce.val.th)
                        ELSE IF a = "z1_c" THEN Some(negated(ce.val.z))
                        ELSE IF a = "z2_c" THEN Some(ce.val.z)
                        ELSE Nothing])
        ELSE Raise(ErrMaterialID)

\* LODCM.format_status_info: the derived part of the report (configuration,
\* reflection and energy), or the exception that leaves the method.
format_status_info(p, g) ==
    LET material == get_material(p, FALSE)
        e        == get_energy(p, g, None, Nothing)
        energy   == IF e.kind = "raise" THEN Some("Unknown") ELSE Some(e.val)
        ref      == get_reflection(p, g, TRUE, FALSE)
    IN  IF material.kind = "raise" THEN material
        ELSE IF ref.kind = "raise" THEN ref
        ELSE Return([configuration |->
                        IF material.val = "C" THEN "Diamond"
                        ELSE IF material.val = "Si" THEN "Silicon"
                        ELSE "Unknown",
                     energy |-> energy,
                     ref |-> ref.val])

-----------------------------------------------------------------------------
(* Initial state *)

NoCall == [op |-> "none"]

InitPos == [d \in Components |-> IF d = "h1n" \/ d \in Diagnostics THEN "OUT" ELSE "C"]

Registers == {"t1_c_ref", "t1_si_ref", "t2_c_ref", "t2_si_ref"}

NumRefs == 2

RefPool == << <<1, 1, 1>>, <<2, 2, 0>>, <<1, 1, 3>>, <<4, 0, 0>> >>

RefVals == {RefPool[i] : i \in 1..NumRefs}

\* No remove command has been given to h1n.
LeadIdle ==
    [state |-> "idle", status |-> "none", motion |-> "none",
     wait |-> FALSE, timed |-> FALSE, cb |-> FALSE, cbcalls |-> 0]

IdleDia ==
    /\ lead = LeadIdle
    /\ sub = [d \in Diagnostics |-> "none"]
    /\ motion = [d \in Diagnostics |-> "none"]
    /\ stuck = {}
    /\ joined = "none"
    /\ cbcalls = 0
    /\ call = [state |-> "idle", wait |-> FALSE, timed |-> FALSE,
               subtimed |-> FALSE, cb |-> FALSE]
    /\ clock = 0

\* The material and reflection queries read neither the prefix nor the foil.
Init ==
    /\ prefix = XppLodcm
    /\ pos = InitPos
    /\ regs \in [Registers -> RefVals]
    /\ ret = NoCall
    /\ IdleDia

-----------------------------------------------------------------------------
(* Hardware: a positioner's readback changes *)

Readback(d, s) ==
    /\ ret = NoCall
    /\ pos' = [pos EXCEPT ![d] = s]
    /\ pos' # pos
    /\ UNCHANGED <<regs, ret, diaVars>>

(* The caller takes the outcome of the query that has just run *)

TakeResult ==
    /\ ret # NoCall
    /\ ret' = NoCall
    /\ UNCHANGED <<pos, regs, diaVars>>

(* Queries on the beam path *)

CallDestination ==
    /\ ret = NoCall
    /\ ret' = [op |-> "destination", val |-> destination(pos)]
    /\ UNCHANGED <<pos, regs, diaVars>>

CallDiaClear ==
    /\ ret = NoCall
    /\ ret' = [op |-> "_dia_clear", val |-> dia_clear(pos)]
    /\ UNCHANGED <<pos, regs, diaVars>>

CallInserted ==
    /\ ret = NoCall
    /\ ret' = [op |-> "inserted", val |-> lodcm_inserted(pos)]
    /\ UNCHANGED <<pos, regs, diaVars>>

CallRemoved ==
    /\ ret = NoCall
    /\ ret' = [op |-> "removed", val |-> lodcm_removed(pos)]
    /\ UNCHANGED <<pos, regs, diaVars>>

DestDevs == {"h1n"} \cup Diagnostics

InitDest ==
    /\ prefix \in Prefixes
    /\ pos = InitPos
    /\ regs = [r \in Registers |-> RefPool[1]]
    /\ ret = NoCall
    /\ IdleDia

NextDest ==
    \/ \E d \in DestDevs : \E s \in Positions(d) : Readback(d, s)
    \/ CallDestination
    \/ CallDiaClear
    \/ CallInserted
    \/ CallRemoved
    \/ TakeResult

SpecDest == InitDest /\ [][NextDest]_vars

-----------------------------------------------------------------------------
(* destination, one read of h1n.position at a time, while H1N changes.
   A call in progress is held in ret: pc is the test about to run, dest the
   list built so far and reported the states H1N has shown since the call
   began. *)

\* destination is entered; the first test (h1n.position == 'OUT') is next.
DestinationBegin ==
    /\ ret = NoCall
    /\ ret' = [op |-> "destination_run", pc |-> "if_out", dest |-> <<>>,
               reported |-> {pos["h1n"]}]
    /\ UNCHANGED <<pos, regs, diaVars>>

\* One test of the if/elif chain: it reads h1n.position afresh.
DestinationTest ==
    /\ ret.op = "destination_run"
    /\ ret.pc \in {"if_out", "if_si", "if_c"}
    /\ LET h == pos["h1n"]
       IN  ret' = CASE ret.pc = "if_out" ->
                        IF h = "OUT"
                        THEN [ret EXCEPT !.dest = <<main_line>>, !.pc = "strip"]
                        ELSE [ret EXCEPT !.pc = "if_si"]
                    [] ret.pc = "if_si" ->
                        IF h = "Si"
                        THEN [ret EXCEPT !.dest = <<mono_line>>, !.pc = "strip"]
                        ELSE [ret EXCEPT !.pc = "if_c"]
                    [] OTHER ->
                        IF h = "C"
                        THEN [ret EXCEPT !.dest = <<main_line, mono_line>>,
                                         !.pc = "strip"]
                        ELSE [ret EXCEPT !.dest = <<>>, !.pc = "strip"]
    /\ UNCHANGED <<pos, regs, diaVars>>

\* The mono line is removed when the diagnostics are not clear, and the list
\* is returned.
DestinationStrip ==
    /\ ret.op = "destination_run"
    /\ ret.pc = "strip"
    /\ ret' = [op |-> "destination_done",
               val |-> IF ~dia_clear(pos) /\ InList(mono_line, ret.dest)
                       THEN list_remove(ret.dest, mono_line)
                       ELSE ret.dest,
               reported |-> ret.reported]
    /\ UNCHANGED <<pos, regs, diaVars>>

\* H1N shows another state while destination runs.
H1NChanges(s) ==
    /\ ret.op = "destination_run"
    /\ pos' = [pos EXCEPT !["h1n"] = s]
    /\ pos' # pos
    /\ ret' = [ret EXCEPT !.reported = @ \cup {s}]
    /\ UNCHANGED <<regs, diaVars>>

\* The caller takes the list.
DestinationReturn ==
    /\ ret.op = "destination_done"
    /\ ret' = NoCall
    /\ UNCHANGED <<pos, regs, diaVars>>

NextRace ==
    \/ \E d \in DestDevs : \E s \in Positions(d) : Readback(d, s)
    \/ DestinationBegin
    \/ DestinationTest
    \/ DestinationStrip
    \/ \E s \in Positions("h1n") : H1NChanges(s)
    \/ DestinationReturn

SpecRace == InitDest /\ [][NextRace]_vars

-----------------------------------------------------------------------------
(* Queries on material and reflection *)

CallGetMaterial(check) ==
    /\ ret = NoCall
    /\ ret' = [op |-> "get_material", check |-> check,
               out |-> get_material(pos, check)]
    /\ UNCHANGED <<pos, regs, diaVars>>

CallTowerMaterial(tower_num, check) ==
    /\ ret = NoCall
    /\ ret' = [op |-> "get_tower_material", tower |-> tower_num, check |-> check,
               out |-> IF tower_num = 1
                       THEN get_first_tower_material(pos, check)
                       ELSE get_second_tower_material(pos, check)]
    /\ UNCHANGED <<pos, regs, diaVars>>

CallTowerReflection(tower_num, as_tuple, check) ==
    /\ ret = NoCall
    /\ ret' = [op |-> "get_tower_reflection", tower |-> tower_num,
               as_tuple |-> as_tuple, check |-> check,
               out |-> IF tower_num = 1
                       THEN get_first_tower_reflection(pos, regs, as_tuple, check)
                       ELSE get_second_tower_reflection(pos, regs, as_tuple, check)]
    /\ UNCHANGED <<pos, regs, diaVars>>

CallGetReflection(as_tuple, check) ==
    /\ ret = NoCall
    /\ ret' = [op |-> "get_reflection", as_tuple |-> as_tuple, check |-> check,
               out |-> get_reflection(pos, regs, as_tuple, check)]
    /\ UNCHANGED <<pos, regs, diaVars>>

CallFormatStatusInfo ==
    /\ ret = NoCall
    /\ ret' = [op |-> "format_status_info", out |-> format_status_info(pos, regs)]
    /\ UNCHANGED <<pos, regs, diaVars>>

\* Materials a caller passes to the energy methods: none, the two supported
\* ones and one that is not supported.
MaterialArgs == {None, "C", "Si", "Ge"}

\* Reflections a caller passes to the energy methods: none or a tuple.
ReflectionArgs == {Nothing, Some(RefPool[1])}

CallGetEnergy(material, reflection) ==
    /\ ret = NoCall
    /\ ret' = [op |-> "get_energy", material |-> material,
               reflection |-> reflection,
               out |-> get_energy(pos, regs, material, reflection)]
    /\ UNCHANGED <<pos, regs, diaVars>>

\* Positions handed to forward and inverse, represented by one number.
InputPositions == {7, 8}

CallForward(pseudo_pos) ==
    /\ ret = NoCall
    /\ ret' = [op |-> "forward", input |-> pseudo_pos,
               out |-> forward(pos, regs, pseudo_pos)]
    /\ UNCHANGED <<pos, regs, diaVars>>

CallInverse(real_pos) ==
    /\ ret = NoCall
    /\ ret' = [op |-> "inverse", input |-> real_pos,
               out |-> inverse(pos, regs, real_pos)]
    /\ UNCHANGED <<pos, regs, diaVars>>

NextMat ==
    \/ \E d \in Tower1 \cup Tower2 : \E s \in Positions(d) : Readback(d, s)
    \/ \E check \in BOOLEAN : CallGetMaterial(check)
    \/ \E n \in {1, 2} : \E check \in BOOLEAN : CallTowerMaterial(n, check)
    \/ \E n \in {1, 2} : \E as_tuple \in BOOLEAN : \E check \in BOOLEAN :
            CallTowerReflection(n, as_tuple, check)
    \/ \E as_tuple \in BOOLEAN : \E check \in BOOLEAN :
            CallGetReflection(as_tuple, check)
    \/ \E material \in MaterialArgs : \E reflection \in ReflectionArgs :
            CallGetEnergy(material, reflection)
    \/ \E x \in InputPositions : CallForward(x)
    \/ \E x \in InputPositions : CallInverse(x)
    \/ CallFormatStatusInfo
    \/ TakeResult

SpecMat == Init /\ [][NextMat]_vars

-----------------------------------------------------------------------------
(* remove_dia: status objects, the commanded motions and the waiting caller *)

\* The timeout T of a call that gives one, in clock ticks.
TimeoutT == 2

\* NullStatus(): a status that is done, successfully, from the start.
NullStatus == "success"

\* left & right, the join of two statuses: it resolves only once both sides
\* have resolved, successfully when both have succeeded.
AndStatus(left, right) ==
    IF left \in {"success", "failed"} /\ right \in {"success", "failed"}
    THEN IF left = "success" /\ right = "success" THEN "success" ELSE "failed"
    ELSE "pending"

\* A loop that leaves the diode out.
remove_dia_targets_no_diode == <<"yag", "dectris", "foil">>

\* The devices remove_dia loops over, in order.
remove_dia_targets == <<"yag", "dectris", "diode", "foil">>

\* A call that does not hand its timeout to the sub-commands.
sub_timeout_dropped(timed) == FALSE

\* The timeout remove_dia hands to each dia.remove().
sub_timeout(timed) == timed

\* The status the loop of remove_dia builds from the sub-statuses sb.
RECURSIVE fold_status(_, _, _)
fold_status(status, targets, sb) ==
    IF targets = <<>> THEN status
    ELSE fold_status(AndStatus(status, sb[Head(targets)]), Tail(targets), sb)

\* A loop that keeps the status of the last command only (status = ...
\* without status &).
joined_status_last_only(sb) == sb[remove_dia_targets[Len(remove_dia_targets)]]

\* The status remove_dia returns, from the sub-statuses sb.
joined_status(sb) == fold_status(NullStatus, remove_dia_targets, sb)

Targets == {remove_dia_targets[i] : i \in 1..Len(remove_dia_targets)}

\* The callbacks of the returned status run once, when it becomes done.
callbacks_run(before, after, cb) ==
    IF cb /\ before = "pending" /\ after # "pending" THEN 1 ELSE 0

\* LODCM.remove_dia(moved_cb, timeout, wait): one remove command per target,
\* the statuses joined with &, moved_cb added to the joined status, and the
\* caller left waiting on it when wait is true.
RemoveDia(cb, timed, wait) ==
    /\ call.state = "idle"
    /\ sub' = [d \in Diagnostics |-> IF d \in Targets THEN "pending" ELSE sub[d]]
    /\ motion' = [d \in Diagnostics |-> IF d \in Targets THEN "moving" ELSE motion[d]]
    /\ joined' = joined_status(sub')
    /\ cbcalls' = IF cb /\ joined' # "pending" THEN 1 ELSE 0
    /\ call' = [state |-> IF wait THEN "waiting" ELSE "returned",
                wait |-> wait, timed |-> timed,
                subtimed |-> sub_timeout(timed), cb |-> cb]
    /\ clock' = 0
    /\ UNCHANGED <<pos, regs, ret, stuck, prefix, lead>>

\* The motion commanded on d reaches its removed state; the status of the
\* command, if still pending, succeeds.
Complete(d) ==
    /\ motion[d] = "moving"
    /\ d \notin stuck
    /\ motion' = [motion EXCEPT ![d] = "done"]
    /\ pos' = [pos EXCEPT ![d] = "OUT"]
    /\ sub' = [sub EXCEPT ![d] = IF @ = "pending" THEN "success" ELSE @]
    /\ joined' = joined_status(sub')
    /\ cbcalls' = cbcalls + callbacks_run(joined, joined', call.cb)
    /\ UNCHANGED <<regs, ret, stuck, call, clock, prefix, lead>>

\* Time passes while a timed command is outstanding.
Tick ==
    /\ call.state # "idle"
    /\ call.subtimed
    /\ clock < TimeoutT
    /\ clock' = clock + 1
    /\ UNCHANGED <<pos, regs, ret, sub, motion, stuck, joined, cbcalls, call,
                   prefix, lead>>

\* The timeout of the status of the command on d expires: the status fails,
\* the motion itself goes on.
SubTimeout(d) ==
    /\ call.subtimed
    /\ clock = TimeoutT
    /\ sub[d] = "pending"
    /\ sub' = [sub EXCEPT ![d] = "failed"]
    /\ joined' = joined_status(sub')
    /\ cbcalls' = cbcalls + callbacks_run(joined, joined', call.cb)
    /\ UNCHANGED <<pos, regs, ret, motion, stuck, call, clock, prefix, lead>>

\* status_wait(status) ends once the joined status is done: it returns when
\* the status succeeded and raises when it failed.
WaitEnds ==
    /\ call.state = "waiting"
    /\ joined # "pending"
    /\ call' = [call EXCEPT !.state = IF joined = "success" THEN "returned"
                                      ELSE "raised"]
    /\ UNCHANGED <<pos, regs, ret, sub, motion, stuck, joined, cbcalls, clock,
                   prefix, lead>>

\* The arguments remove is called with: the defaults (no callback, no
\* timeout, no wait), and a callback with a timeout and a wait.
RemoveArgs ==
    {[cb |-> FALSE, timed |-> FALSE, wait |-> FALSE],
     [cb |-> TRUE, timed |-> TRUE, wait |-> TRUE]}

\* LODCM.remove(moved_cb, timeout, wait): the remove command is given to
\* h1n with the same arguments and its status is returned; the caller is left
\* waiting on it when wait is true.
Remove(cb, timed, wait) ==
    /\ lead.state = "idle"
    /\ lead' = [state |-> IF wait THEN "waiting" ELSE "returned",
                status |-> "pending", motion |-> "moving",
                wait |-> wait, timed |-> timed, cb |-> cb, cbcalls |-> 0]
    /\ UNCHANGED <<pos, regs, ret, sub, motion, stuck, joined, cbcalls, call,
                   clock, prefix>>

\* The motion commanded on h1n reaches 'OUT'; the status of the command, if
\* still pending, succeeds and its callback runs.
H1NComplete ==
    /\ lead.motion = "moving"
    /\ pos' = [pos EXCEPT !["h1n"] = "OUT"]
    /\ lead' = [lead EXCEPT
                    !.motion = "done",
                    !.status = IF @ = "pending" THEN "success" ELSE @,
                    !.cbcalls = IF lead.cb /\ lead.status = "pending"
                                THEN @ + 1 ELSE @]
    /\ UNCHANGED <<regs, ret, sub, motion, stuck, joined, cbcalls, call, clock,
                   prefix>>

\* The timeout of the status of the command on h1n expires: the status
\* fails and its callback runs, the motion itself goes on.
H1NTimeout ==
    /\ lead.timed
    /\ lead.status = "pending"
    /\ lead' = [lead EXCEPT !.status = "failed",
                            !.cbcalls = IF lead.cb THEN @ + 1 ELSE @]
    /\ UNCHANGED <<pos, regs, ret, sub, motion, stuck, joined, cbcalls, call,
                   clock, prefix>>

\* The wait inside h1n.remove ends once the status is done: it returns when
\* the status succeeded and raises when it failed.
RemoveWaitEnds ==
    /\ lead.state = "waiting"
    /\ lead.status # "pending"
    /\ lead' = [lead EXCEPT !.state = IF lead.status = "success"
                                      THEN "returned" ELSE "raised"]
    /\ UNCHANGED <<pos, regs, ret, sub, motion, stuck, joined, cbcalls, call,
                   clock, prefix>>

\* The diagnostics start inserted and H1N in any state; any of the
\* diagnostics may have a motion that never completes.  The prefix is one
\* that gives the foil its in states or one that gives it none, and then the
\* foil starts at 'OUT'.
InitDia ==
    /\ prefix \in {XppLodcm, TstLodcm}
    /\ lead = LeadIdle
    /\ \E h \in Positions("h1n") :
            pos = [InitPos EXCEPT !["h1n"] = h, !["yag"] = "YAG",
                                  !["dectris"] = "DECTRIS",
                                  !["diode"] = "IN",
                                  !["foil"] = IF "Mo" \in FoilInStates
                                              THEN "Mo" ELSE "OUT"]
    /\ regs = [r \in Registers |-> RefPool[1]]
    /\ ret = NoCall
    /\ sub = [d \in Diagnostics |-> "none"]
    /\ motion = [d \in Diagnostics |-> "none"]
    /\ stuck \in SUBSET Diagnostics
    /\ joined = "none"
    /\ cbcalls = 0
    /\ call = [state |-> "idle", wait |-> FALSE, timed |-> FALSE,
               subtimed |-> FALSE, cb |-> FALSE]
    /\ clock = 0

NextDia ==
    \/ \E cb \in BOOLEAN : \E timed \in BOOLEAN : \E wait \in BOOLEAN :
            RemoveDia(cb, timed, wait)
    \/ \E d \in Diagnostics : Complete(d)
    \/ Tick
    \/ \E d \in Diagnostics : SubTimeout(d)
    \/ WaitEnds
    \/ \E a \in RemoveArgs : Remove(a.cb, a.timed, a.wait)
    \/ H1NComplete
    \/ H1NTimeout
    \/ RemoveWaitEnds

SpecDia == InitDia /\ [][NextDia]_vars

\* Timers expire and a waiting caller is woken once the status is done; a
\* motion is not bound to complete.
SpecDiaFair ==
    /\ InitDia
    /\ [][NextDia]_vars
    /\ WF_vars(Tick)
    /\ \A d \in Diagnostics : WF_vars(SubTimeout(d))
    /\ WF_vars(WaitEnds)

\* Every commanded motion that is not stuck completes, timers expire and a
\* waiting caller is woken once the status is done.
SpecDiaLive ==
    /\ InitDia
    /\ [][NextDia]_vars
    /\ \A d \in Diagnostics : WF_vars(Complete(d))
    /\ WF_vars(Tick)
    /\ \A d \in Diagnostics : WF_vars(SubTimeout(d))
    /\ WF_vars(WaitEnds)

-----------------------------------------------------------------------------
(* Properties of the beam destination, checked under SpecDest *)

\* C1: destination returns [main_line] for H1N 'OUT'; [mono_line] for 'Si'
\* with the diagnostics clear and [] with them not clear; [main_line,
\* mono_line] for 'C' with the diagnostics clear and [main_line] with them
\* not clear; [] for any other H1N state.  So it is [] when the lead state
\* is unknown and never holds mono_line when _dia_clear is false.
C1_DestinationTable ==
    ret.op = "destination" =>
        /\ ret.val = CASE pos["h1n"] = "OUT" -> <<main_line>>
                       [] pos["h1n"] = "Si"  ->
                            IF dia_clear(pos) THEN <<mono_line>> ELSE <<>>
                       [] pos["h1n"] = "C"   ->
                            IF dia_clear(pos) THEN <<main_line, mono_line>>
                            ELSE <<main_line>>
                       [] OTHER              -> <<>>
        /\ (pos["h1n"] = Unknown => ret.val = <<>>)
        /\ (~dia_clear(pos) => ~InList(mono_line, ret.val))

\* C1 witness: H1N is 'C', the yag is in, and destination returned [main_line].
C1_Witness ==
    /\ ret.op = "destination"
    /\ pos["h1n"] = "C"
    /\ pos["yag"] = "YAG"
    /\ ret.val = <<main_line>>

\* C2: _dia_clear is true iff yag, dectris and foil are each in a removed
\* state, and neither it nor destination changes when only the diode's state
\* changes.
C2_DiaClearIgnoresDiode ==
    /\ ret.op = "_dia_clear" =>
            (ret.val <=> /\ pos["yag"] = "OUT"
                         /\ pos["dectris"] \in {"OUT", "OUTLOW"}
                         /\ pos["foil"] = "OUT")
    /\ \A s \in Positions("diode") :
            /\ dia_clear([pos EXCEPT !["diode"] = s]) = dia_clear(pos)
            /\ destination([pos EXCEPT !["diode"] = s]) = destination(pos)

\* C2 witness: _dia_clear returned true while the diode is in.
C2_Witness ==
    /\ ret.op = "_dia_clear"
    /\ ret.val = TRUE
    /\ pos["diode"] = "IN"

\* C11: LODCM.inserted and LODCM.removed are those of H1N and are never both
\* true: inserted holds only with H1N 'C' or 'Si', removed only with H1N
\* 'OUT', and both are false while the state of H1N is unknown.
C11_InsertedRemovedExclusive ==
    /\ lodcm_inserted(pos) = inserted(pos, "h1n")
    /\ lodcm_removed(pos) = removed(pos, "h1n")
    /\ ~(lodcm_inserted(pos) /\ lodcm_removed(pos))
    /\ ret.op = "inserted" => (ret.val <=> pos["h1n"] \in {"C", "Si"})
    /\ ret.op = "removed" => (ret.val <=> pos["h1n"] = "OUT")
    /\ (ret.op \in {"inserted", "removed"} /\ pos["h1n"] = Unknown) =>
            ret.val = FALSE

\* C11 witness: removed was read and is false while H1N is unknown.
C11_Witness ==
    /\ ret.op = "removed"
    /\ pos["h1n"] = Unknown
    /\ ret.val = FALSE

\* C15: a destination call classifies one consistent H1N readback although
\* H1N changes during the call: the list returned is the list prescribed for
\* one of the states H1N showed during the call.
C15_OneConsistentReadback ==
    ret.op = "destination_done" =>
        \E h \in ret.reported :
            ret.val = destination([pos EXCEPT !["h1n"] = h])

-----------------------------------------------------------------------------
(* Properties of material and reflection, checked under SpecMat *)

\* The material each tower is classified as (None when undetermined).
M1 == get_first_tower_material(pos, FALSE).val

M2 == get_second_tower_material(pos, FALSE).val

\* The reflection register each tower resolves to (Nothing when undetermined).
R1 == read_register(pos, regs, 1)

R2 == read_register(pos, regs, 2)

\* The components of a reflection triple written one after the other.
Concat3(t) == str(t[1]) \o str(t[2]) \o str(t[3])

\* C3: when the towers are classified as different materials (C and Si in
\* either order) get_material raises the mismatched-arrangement error, with
\* check true or false; it returns nothing in that case.
C3_MismatchAlwaysRaises ==
    (ret.op = "get_material" /\ {M1, M2} = {"C", "Si"}) =>
        ret.out = Raise(ErrArrangementMaterial)

\* C3 witness: get_material(check=True) raised with tower 1 C and tower 2 Si.
C3_Witness ==
    /\ ret.op = "get_material"
    /\ ret.check
    /\ M1 = "C"
    /\ M2 = "Si"
    /\ ret.out.kind = "raise"

\* C4 as stated: get_material raises the indeterminate error exactly when
\* check is true and a tower is undetermined, and with check false an
\* undetermined tower never makes it raise (also when only one tower is
\* undetermined): it returns None or the agreed label.
C4_Original ==
    ret.op = "get_material" =>
        /\ (ret.out = Raise(ErrMaterial)) <=>
                (ret.check /\ (M1 = None \/ M2 = None))
        /\ (~ret.check /\ (M1 = None \/ M2 = None)) =>
                (ret.out.kind = "return" /\ ret.out.val \in {None, M1, M2})

\* C4 amended: get_material raises the indeterminate error exactly when check
\* is true and a tower is undetermined.  With check false it returns None
\* when both towers are undetermined, and raises the mismatched-arrangement
\* error when exactly one tower is undetermined; whatever it returns is the
\* value both towers agree on.
C4_Amended ==
    ret.op = "get_material" =>
        /\ (ret.out = Raise(ErrMaterial)) <=>
                (ret.check /\ (M1 = None \/ M2 = None))
        /\ (~ret.check /\ M1 = None /\ M2 = None) => ret.out = Return(None)
        /\ (~ret.check /\ ((M1 = None) # (M2 = None))) =>
                ret.out = Raise(ErrArrangementMaterial)
        /\ ret.out.kind = "return" => (M1 = M2 /\ ret.out.val = M1)

\* C4 witness: get_material(check=False) raised the mismatch error with tower 1
\* undetermined and tower 2 C.
C4_Witness ==
    /\ ret.op = "get_material"
    /\ ~ret.check
    /\ M1 = None
    /\ M2 = "C"
    /\ ret.out = Raise(ErrArrangementMaterial)

\* C5: a tower is classified as M (C or Si) iff each of its state positioners
\* reports M, h1n of tower 1 being accepted also when it reports 'OUT'; in
\* every other combination the tower's material is undetermined (None, or
\* the indeterminate error with check true).
C5_TowerClassification ==
    ret.op = "get_tower_material" =>
        LET T == IF ret.tower = 1 THEN Tower1 ELSE Tower2
            isM(M) == \A d \in T :
                        \/ pos[d] = M
                        \/ (ret.tower = 1 /\ d = "h1n" /\ pos[d] = "OUT")
        IN  /\ \A M \in {"C", "Si"} : (ret.out = Return(M)) <=> isM(M)
            /\ (~isM("C") /\ ~isM("Si")) =>
                    ret.out = IF ret.check THEN Raise(ErrMaterial)
                              ELSE Return(None)

\* C5 witness: tower 1 was classified Si with h1n 'OUT'.
C5_Witness ==
    /\ ret.op = "get_tower_material"
    /\ ret.tower = 1
    /\ pos["h1n"] = "OUT"
    /\ ret.out = Return("Si")

\* C8 as stated: format_status_info never lets a derivation failure out; it
\* returns a report for every state of the device.
C8_ReportNeverRaises ==
    ret.op = "format_status_info" => ret.out.kind = "return"

\* C9: the reflection of a tower is read from the register of that tower and
\* of the material the tower is classified as; with the material
\* undetermined the call raises when check is true and returns None when
\* check is false, for both values of as_tuple.
C9_TowerReflection ==
    ret.op = "get_tower_reflection" =>
        LET m == IF ret.tower = 1 THEN M1 ELSE M2
            reg == CASE ret.tower = 1 /\ m = "C"  -> "t1_c_ref"
                     [] ret.tower = 1 /\ m = "Si" -> "t1_si_ref"
                     [] ret.tower = 2 /\ m = "C"  -> "t2_c_ref"
                     [] OTHER                     -> "t2_si_ref"
        IN  IF m = None
            THEN ret.out = IF ret.check THEN Raise(ErrReflection)
                           ELSE Return(Nothing)
            ELSE ret.out = Return(Some(IF ret.as_tuple THEN regs[reg]
                                       ELSE Concat3(regs[reg])))

\* C9 witness: tower 2 is Si, its two registers differ, and its reflection
\* was returned.
C9_Witness ==
    /\ ret.op = "get_tower_reflection"
    /\ ret.tower = 2
    /\ M2 = "Si"
    /\ regs["t2_c_ref"] # regs["t2_si_ref"]
    /\ ret.out.kind = "return"

\* C10 as stated: get_reflection raises the mismatch error whenever the towers
\* disagree (their reflections differ or they are classified as different
\* materials) whatever check is, raises the indeterminate error for an
\* undetermined tower only when check is true, and otherwise returns the
\* reflection common to both towers.
C10_Original ==
    ret.op = "get_reflection" =>
        LET unknown  == M1 = None \/ M2 = None
            disagree == ~unknown /\ (R1 # R2 \/ M1 # M2)
        IN  /\ disagree => ret.out = Raise(ErrArrangementReflection)
            /\ (ret.out = Raise(ErrReflection)) <=> (ret.check /\ unknown)
            /\ (~unknown /\ ~disagree) =>
                    ret.out = Return(IF ret.as_tuple THEN R1
                                     ELSE Some(Concat3(R1[1])))

\* C10 amended: get_reflection raises the indeterminate error iff check is true
\* and a tower is undetermined; otherwise it raises the mismatch error iff
\* the two per-tower results differ (an undetermined tower's None differs
\* from every reflection), and otherwise returns the result common to both.
\* Towers classified as different materials whose registers hold the same
\* reflection do not make it raise.
C10_Amended ==
    ret.op = "get_reflection" =>
        LET unknown == M1 = None \/ M2 = None
            V(R) == IF R = Nothing THEN Nothing
                    ELSE IF ret.as_tuple THEN R
                    ELSE Some(Concat3(R[1]))
        IN  ret.out = IF ret.check /\ unknown THEN Raise(ErrReflection)
                      ELSE IF V(R1) # V(R2) THEN Raise(ErrArrangementReflection)
                      ELSE Return(V(R1))

\* C10 witness: tower 1 is C, tower 2 is Si, their registers hold the same
\* reflection, and get_reflection returned it.
C10_Witness ==
    /\ ret.op = "get_reflection"
    /\ M1 = "C"
    /\ M2 = "Si"
    /\ R1 = R2
    /\ ret.out = Return(IF ret.as_tuple THEN R1 ELSE Some(Concat3(R1[1])))

\* The positioner states that differ from the current one in one positioner
\* of tower 2.
Tower2Variants ==
    {[pos EXCEPT ![d] = v] : d \in Tower2, v \in UNION {Positions(e) : e \in Tower2}}

\* The register contents that differ from the current ones in one register
\* of tower 2.
Tower2RegVariants ==
    {[regs EXCEPT ![r] = v] : r \in {"t2_c_ref", "t2_si_ref"}, v \in RefVals}

\* C12: the outcome of get_energy depends on tower 1 only.  The material that
\* is not supplied is the one inferred for tower 1; th1_si is read iff the
\* resolved material is Si and th1_c iff it is C; the call raises when the
\* material or the reflection of tower 1 cannot be resolved; and no change of
\* a tower-2 positioner or register changes the outcome.
C12_EnergyFromTowerOne ==
    ret.op = "get_energy" =>
        LET mm == IF ret.material = None THEN M1 ELSE ret.material
            rr == IF ret.reflection = Nothing THEN R1 ELSE ret.reflection
        IN  /\ (mm = None \/ rr = Nothing) => ret.out.kind = "raise"
            /\ (mm \in {"C", "Si"} /\ rr # Nothing) =>
                    /\ ret.out.kind = "return"
                    /\ ret.out.val.material = mm
                    /\ ret.out.val.reflection = rr
                    /\ ret.out.val.axis = "th1_si" <=> mm = "Si"
                    /\ ret.out.val.axis = "th1_c" <=> mm = "C"
            /\ \A p \in Tower2Variants :
                    get_energy(p, regs, ret.material, ret.reflection) = ret.out
            /\ \A g \in Tower2RegVariants :
                    get_energy(pos, g, ret.material, ret.reflection) = ret.out

\* C12 witness: the towers disagree (tower 1 Si, tower 2 C) and get_energy
\* with nothing supplied returns the value read from th1_si.
C12_Witness ==
    /\ ret.op = "get_energy"
    /\ ret.material = None /\ ret.reflection = Nothing
    /\ M1 = "Si" /\ M2 = "C"
    /\ ret.out.kind = "return"
    /\ ret.out.val.axis = "th1_si"

\* C13: forward and inverse are total: in every device state forward returns
\* a position over every declared real axis and inverse a position over every
\* declared pseudo axis, and neither raises.
C13_TransformsTotal ==
    /\ ret.op = "forward" =>
            ret.out.kind = "return" /\ DOMAIN ret.out.val = RealAxes
    /\ ret.op = "inverse" =>
            ret.out.kind = "return" /\ DOMAIN ret.out.val = PseudoAxes

\* C14: for a resolved reflection tuple, as_tuple false gives the string that
\* concatenates the components in order ((1,1,1) gives "111", (2,2,0) gives
\* "220") and as_tuple true gives the tuple unchanged; an unresolved
\* reflection with check false gives None for both values of as_tuple.
C14_ReflectionRendering ==
    ret.op = "get_tower_reflection" =>
        LET refs == IF ret.tower = 1 THEN R1 ELSE R2
        IN  /\ (refs # Nothing /\ ret.as_tuple) => ret.out = Return(refs)
            /\ (refs # Nothing /\ ~ret.as_tuple) =>
                    /\ ret.out.kind = "return"
                    /\ ret.out.val # Nothing
                    /\ ret.out.val[1] =
                          str(refs[1][1]) \o str(refs[1][2]) \o str(refs[1][3])
                    /\ refs[1] = <<1, 1, 1>> => ret.out.val[1] = "111"
                    /\ refs[1] = <<2, 2, 0>> => ret.out.val[1] = "220"
            /\ (refs = Nothing /\ ~ret.check) => ret.out = Return(Nothing)

\* C14 witness: the register read holds (2,2,0) and the call with as_tuple
\* false returned "220".
C14_Witness ==
    /\ ret.op = "get_tower_reflection"
    /\ ~ret.as_tuple
    /\ (IF ret.tower = 1 THEN R1 ELSE R2) = Some(<<2, 2, 0>>)
    /\ ret.out = Return(Some("220"))

\* C17: in every state of the positioners a tower is never classified as
\* both materials, also with h1n 'OUT'; so the material of a tower and the
\* register its reflection is read from are the same when the Si test is
\* made before the C test.
C17_NeverBothMaterials ==
    LET material_si_first(n) ==
            IF n = 1 /\ is_tower_1_si(pos) THEN "Si"
            ELSE IF n = 1 /\ is_tower_1_c(pos) THEN "C"
            ELSE IF n = 2 /\ is_tower_2_si(pos) THEN "Si"
            ELSE IF n = 2 /\ is_tower_2_c(pos) THEN "C"
            ELSE None
        refs_si_first(n) ==
            IF n = 1 /\ is_tower_1_si(pos) THEN Some(regs["t1_si_ref"])
            ELSE IF n = 1 /\ is_tower_1_c(pos) THEN Some(regs["t1_c_ref"])
            ELSE IF n = 2 /\ is_tower_2_si(pos) THEN Some(regs["t2_si_ref"])
            ELSE IF n = 2 /\ is_tower_2_c(pos) THEN Some(regs["t2_c_ref"])
            ELSE Nothing
    IN  /\ ~(is_tower_1_c(pos) /\ is_tower_1_si(pos))
        /\ ~(is_tower_2_c(pos) /\ is_tower_2_si(pos))
        /\ \A n \in {1, 2} :
                /\ get_material_of_tower(pos, n, FALSE) = Return(material_si_first(n))
                /\ read_register(pos, regs, n) = refs_si_first(n)
        /\ (ret.op = "get_tower_material" /\ ret.out.kind = "return") =>
                ret.out.val = material_si_first(ret.tower)
        /\ (ret.op = "get_tower_reflection" /\ ret.out.kind = "return"
                /\ ret.as_tuple) =>
                ret.out.val = refs_si_first(ret.tower)

\* C17 witness: h1n is 'OUT', tower 1 is classified C, the two registers of
\* tower 1 differ and the reflection returned is the one of the C register.
C17_Witness ==
    /\ ret.op = "get_tower_reflection"
    /\ ret.tower = 1
    /\ ret.as_tuple
    /\ pos["h1n"] = "OUT"
    /\ is_tower_1_c(pos)
    /\ regs["t1_c_ref"] # regs["t1_si_ref"]
    /\ ret.out = Return(Some(regs["t1_c_ref"]))

-----------------------------------------------------------------------------
(* Properties of remove_dia, checked under SpecDia and SpecDiaFair *)

\* C6: remove_dia commands each of the four diagnostics and the status it
\* returns is the AND of the four sub-statuses: it is never done while any of
\* the four sub-commands is still pending, it is successful iff all four
\* have succeeded, and moved_cb is not invoked before it is done.
C6_StatusJoinsAllFour ==
    call.state # "idle" =>
        /\ \A d \in Diagnostics : sub[d] # "none"
        /\ joined # "pending" => \A d \in Diagnostics : sub[d] # "pending"
        /\ joined = "success" <=> \A d \in Diagnostics : sub[d] = "success"
        /\ cbcalls > 0 =>
                /\ call.cb
                /\ joined # "pending"
                /\ \A d \in Diagnostics : sub[d] # "pending"

\* C6 witness: the status of the yag has failed while the dectris is still
\* pending; the returned status is still pending and moved_cb, which was
\* given, has not run.
C6_Witness ==
    /\ call.state # "idle"
    /\ call.cb
    /\ sub["yag"] = "failed"
    /\ sub["dectris"] = "pending"
    /\ joined = "pending"
    /\ cbcalls = 0

\* C7: remove_dia(wait=True, timeout=T) with a diagnostic that never completes
\* does not block forever: the call ends with the error of the expired
\* timeout, not before T has passed, and the commands issued to the other
\* diagnostics are not cancelled: each is done or still able to complete.
C7_TimedWaitEnds ==
    /\ [](call.state = "raised" =>
            /\ call.timed
            /\ clock = TimeoutT
            /\ \A d \in Diagnostics \ stuck :
                    \/ motion[d] = "done"
                    \/ (motion[d] = "moving" /\ ENABLED Complete(d)))
    /\ ((call.state = "waiting" /\ call.timed /\ stuck # {})
            ~> (call.state = "raised"))

\* C7 witness: the call has raised with the yag stuck, and the dectris
\* completed its motion after its status had timed out.
C7_Witness ==
    /\ call.state = "raised"
    /\ stuck = {"yag"}
    /\ sub["dectris"] = "failed"
    /\ motion["dectris"] = "done"
    /\ pos["dectris"] = "OUT"

\* The four diagnostics are removed, so that _dia_clear is true and
\* destination holds mono_line iff H1N is 'Si' or 'C'.
DiagnosticsRemoved ==
    /\ \A d \in Diagnostics : removed(pos, d)
    /\ dia_clear(pos)
    /\ InList(mono_line, destination(pos)) <=> pos["h1n"] \in {"Si", "C"}

\* C16: whenever the status returned by remove_dia has succeeded, yag,
\* dectris, diode and foil are removed, _dia_clear is true and destination
\* holds mono_line iff H1N is 'Si' or 'C'; when the four motions complete
\* that state is eventually reached, and the status of a call without a
\* timeout eventually succeeds.
C16_RemovedAfterSuccess ==
    /\ [](joined = "success" => DiagnosticsRemoved)
    /\ (call.state # "idle" /\ stuck = {}) ~> DiagnosticsRemoved
    /\ (call.state # "idle" /\ stuck = {} /\ ~call.subtimed) ~>
            (joined = "success")

\* C16 witness: the status has succeeded with H1N at 'Si' and the mono line
\* is a destination.
C16_Witness ==
    /\ joined = "success"
    /\ pos["h1n"] = "Si"
    /\ \A d \in Diagnostics : motion[d] = "done"
    /\ destination(pos) = <<mono_line>>

=============================================================================
